---------------------------- MODULE Spec2Model ----------------------------
(***************************************************************************)
(* Esp32Basecamp: the boot sequence of Basecamp::begin(), the boot         *)
(* resilience check Basecamp::checkResetReason(), the network mode         *)
(* selection WifiControl::begin() and the network event handler            *)
(* WifiControl::WiFiEvent().                                               *)
(*                                                                         *)
(* Persistent state (survives a reset): the NVS key "bootcounter" of the   *)
(* namespace "basecamp" and the configuration file on SPIFFS.  Everything  *)
(* else is RAM and is rebuilt at every boot.                               *)
(*                                                                         *)
(* Strings are sequences of one-character strings, so that comparisons     *)
(* (equalsIgnoreCase), lengths and character membership are computed.      *)
(***************************************************************************)
EXTENDS Integers, Sequences, FiniteSets, TLC

---------------------------------------------------------------------------
(* Bounds of the model *)

\* link-lost events delivered in one boot session
MaxReconnects == 2

---------------------------------------------------------------------------
(* Program constants *)

\* rtc_get_reset_reason() codes the check treats as suspicious
POWERON_RESET == 1
RTCWDT_RTC_RESET == 16
minApSecretLength == 8
defaultApSecretLength == 8
\* the thresholds the incremented boot counter is compared with
bootCounterNetworkLimit == 3
bootCounterWipeLimit == 2

---------------------------------------------------------------------------
(* Strings *)

UpperCase ==
    << "A","B","C","D","E","F","G","H","I","J","K","L","M",
       "N","O","P","Q","R","S","T","U","V","W","X","Y","Z" >>

LowerCase ==
    << "a","b","c","d","e","f","g","h","i","j","k","l","m",
       "n","o","p","q","r","s","t","u","v","w","x","y","z" >>

\* tolower() of one character
ToLower(ch) ==
    IF \E i \in 1..Len(UpperCase) : UpperCase[i] = ch
    THEN LowerCase[CHOOSE i \in 1..Len(UpperCase) : UpperCase[i] = ch]
    ELSE ch

\* faulty variant: compares the characters as they are
EqualsExactly(a, b) ==
    /\ Len(a) = Len(b)
    /\ \A i \in 1..Len(a) : a[i] = b[i]

\* String::equalsIgnoreCase: same length, and equal character by character
\* after tolower()
EqualsIgnoreCase(a, b) ==
    /\ Len(a) = Len(b)
    /\ \A i \in 1..Len(a) : ToLower(a[i]) = ToLower(b[i])

StrEmpty == << >>
StrTrue == << "t","r","u","e" >>
StrFalse == << "f","a","l","s","e" >>
\* the literal the check writes when it forces a network reconfiguration
StrFalseCapital == << "F","a","l","s","e" >>

\* values the persisted wifiConfigured flag is started with
FlagValues ==
    { StrEmpty,
      StrTrue,
      << "T","R","U","E" >>,
      << "T","r","u","e" >>,
      StrFalse,
      StrFalseCapital,
      << "t","r","u" >>,
      << "1" >> }

\* the letters an access point secret is generated from
validChars ==
    << "a","b","c","d","e","f","g","h","j","k","m","n","o","p","q","r","s",
       "t","u","v","w","x","y","z",
       "A","B","C","D","E","F","G","H","J","K","M","N","P","Q","R","S","T",
       "U","V","W","X","Y","Z",
       "2","3","4","5","6","7","8","9",
       ".","-",",",":","$","/" >>

---------------------------------------------------------------------------
(* The configuration store: a string-keyed map; a key that is not in the   *)
(* domain is not set.                                                      *)

KeyWifiConfigured == "wifiConfigured"
KeyAccessPointSecret == "accessPointSecret"
KeyWifiEssid == "wifiEssid"

EmptyConfiguration == [k \in {} |-> StrEmpty]

\* Configuration::isKeySet
ConfigIsKeySet(cfg, key) == key \in DOMAIN cfg

\* Configuration::get: the empty string for a key that is not set
ConfigGet(cfg, key) == IF key \in DOMAIN cfg THEN cfg[key] ELSE StrEmpty

\* Configuration::set
ConfigSet(cfg, key, value) ==
    [k \in (DOMAIN cfg) \cup {key} |-> IF k = key THEN value ELSE cfg[k]]

\* the configuration file on SPIFFS
NoFile == [exists |-> FALSE, content |-> EmptyConfiguration]
FileOf(cfg) == [exists |-> TRUE, content |-> cfg]

\* Configuration::load: fails when there is no file; begin() then resets
ConfigLoadOk(file) == file.exists

\* Configuration::reset: every key is cleared
ConfigReset == EmptyConfiguration

\* the wifiConfigured flag as it is persisted on flash
PersistedFlag(file) == ConfigGet(file.content, KeyWifiConfigured)

---------------------------------------------------------------------------
(* Inputs *)

SuspiciousReasons == { POWERON_RESET, RTCWDT_RTC_RESET }

\* a hardware reset the check does not treat as suspicious: brown-out (15)
OtherHardwareReasons == { 15 }

\* causes of a reset that is not a software restart
HardwareResetReasons == SuspiciousReasons \cup OtherHardwareReasons

\* the causes reported after ESP.restart(): SW_RESET (3), SW_CPU_RESET (12)
SoftwareResetReasons == { 3, 12 }

ResetReasons == HardwareResetReasons \cup SoftwareResetReasons

\* an access point secret kept from an earlier boot
StoredSecret == << "s","t","o","r","e","d","9","9" >>

\* the argument of Basecamp::begin(): none, too short, long enough
FixedPasswords ==
    { StrEmpty,
      << "s","h","o","r","t" >>,
      << "p","a","s","s","w","o","r","d" >> }

\* what esp_random() yields over one call of generateRandomSecret()
RandomDraws ==
    { << 0, 0, 0, 0, 0, 0, 0, 0 >>,
      << 60, 61, 122, 35, 7, 1000001, 24, 46 >> }

\* the configuration files a device is started with
InitialConfigurations ==
    { ConfigSet(EmptyConfiguration, KeyWifiConfigured, f) : f \in FlagValues }
    \cup
    { ConfigSet(ConfigSet(EmptyConfiguration, KeyWifiConfigured, f),
                KeyAccessPointSecret, StoredSecret) : f \in FlagValues }

InitialFiles == { NoFile } \cup { FileOf(cfg) : cfg \in InitialConfigurations }

\* the counter values the check stores
InitialCounters == 0..bootCounterNetworkLimit

NetworkEvents == { "STA_GOT_IP", "STA_DISCONNECTED", "OTHER" }

---------------------------------------------------------------------------
(* State *)

VARIABLES
    pc,                         \* position of the main thread in this boot
    resetReason,                \* rtc_get_reset_reason(0) of this boot
    nvsBootcounter,             \* NVS "basecamp"/"bootcounter" (persisted)
    spiffs,                     \* the configuration file on SPIFFS (persisted)
    configuration,              \* Basecamp::configuration (RAM)
    preferencesOpen,            \* Basecamp::preferences is open
    bootCounter,                \* local of checkResetReason()
    operationMode_,             \* WifiControl::operationMode_
    eventHandler,               \* WiFi.onEvent(WiFiEvent) is registered
    setupModeWifiEncryption_,   \* Basecamp::setupModeWifiEncryption_
    ctorEncryption,             \* constructor argument (firmware constant)
    fixedPassword,              \* argument of begin() (firmware constant)
    softAP,                     \* "off", "open" or "protected"
    softAPSecret,               \* password the access point was started with
    staBegun,                   \* WiFi.begin() was called
    reconnects,                 \* WiFi.reconnect() calls of this session
    counterAtCheck,             \* history: the counter the check found
    flagAtCheck,                \* history: the flag the check found
    escalations,                \* history: escalation actions of this boot
    restartIssuer,              \* history: who called ESP.restart()
    configuredAtBegin,          \* history: persisted flag when begin() ran
    configuredArg,              \* history: the flag WifiControl::begin() got
    lastEvent,                  \* history: the last two events handled
    streak,                     \* history: consecutive suspicious boots
    afterForce,                 \* history: 1 forced at boot 4, 2 the next boot
    linkLost,                   \* history: link-lost events of this session
    consecutive,                \* history: suspicious boots in a row
    earlierEscalations,         \* history: escalations of earlier boots
    followsEscalation,          \* history: this boot follows an escalation
    cleanStart,                 \* history: started at counter 0, flag "true"
    callInput,                  \* arguments of a utility function call
    callOutput                  \* its result

vars ==
    << pc, resetReason, nvsBootcounter, spiffs, configuration,
       preferencesOpen, bootCounter, operationMode_, eventHandler,
       setupModeWifiEncryption_, ctorEncryption, fixedPassword, softAP,
       softAPSecret, staBegun, reconnects, counterAtCheck, flagAtCheck,
       escalations, restartIssuer, configuredAtBegin, configuredArg,
       lastEvent, streak, afterForce, linkLost, consecutive,
       earlierEscalations, followsEscalation, cleanStart, callInput,
       callOutput >>

\* what a reset keeps: flash, NVS, the firmware's arguments
persistent ==
    << nvsBootcounter, spiffs, ctorEncryption, fixedPassword, cleanStart,
       callInput, callOutput >>

network == << operationMode_, eventHandler, softAP, softAPSecret, staBegun,
              reconnects, linkLost, configuredAtBegin, configuredArg,
              lastEvent >>

NoEvents == << "none", "none" >>

\* no utility function is being called
NoCall == << >>

Init ==
    /\ pc = "begin"
    /\ resetReason \in ResetReasons
    /\ nvsBootcounter \in InitialCounters
    /\ spiffs \in InitialFiles
    /\ configuration = EmptyConfiguration
    /\ preferencesOpen = FALSE
    /\ bootCounter = 0
    /\ operationMode_ = "uninitialized"
    /\ eventHandler = FALSE
    /\ ctorEncryption \in { "none", "secured" }
    /\ setupModeWifiEncryption_ = ctorEncryption
    /\ fixedPassword \in FixedPasswords
    /\ softAP = "off"
    /\ softAPSecret = StrEmpty
    /\ staBegun = FALSE
    /\ reconnects = 0
    /\ counterAtCheck = 0
    /\ flagAtCheck = StrEmpty
    /\ escalations = {}
    /\ restartIssuer = "none"
    /\ configuredAtBegin = StrEmpty
    /\ configuredArg = StrEmpty
    /\ lastEvent = NoEvents
    /\ streak = 0
    /\ afterForce = 0
    /\ linkLost = 0
    /\ consecutive = nvsBootcounter
    /\ earlierEscalations = {}
    /\ followsEscalation = FALSE
    /\ cleanStart = (nvsBootcounter = 0 /\ PersistedFlag(spiffs) = StrTrue)
    /\ callInput = NoCall
    /\ callOutput = NoCall

\* a reset: RAM is rebuilt, flash and NVS are kept
BootState(reason) ==
    /\ pc' = "begin"
    /\ resetReason' = reason
    /\ configuration' = EmptyConfiguration
    /\ preferencesOpen' = FALSE
    /\ bootCounter' = 0
    /\ operationMode_' = "uninitialized"
    /\ eventHandler' = FALSE
    /\ setupModeWifiEncryption_' = ctorEncryption
    /\ softAP' = "off"
    /\ softAPSecret' = StrEmpty
    /\ staBegun' = FALSE
    /\ reconnects' = 0
    /\ linkLost' = 0
    /\ counterAtCheck' = 0
    /\ flagAtCheck' = StrEmpty
    /\ escalations' = {}
    /\ restartIssuer' = "none"
    /\ configuredAtBegin' = StrEmpty
    /\ configuredArg' = StrEmpty
    /\ lastEvent' = NoEvents
    /\ UNCHANGED persistent

---------------------------------------------------------------------------
(* Basecamp::begin(), up to the resilience check *)

\* WifiControl::getMinimumSecretLength
getMinimumSecretLength == minApSecretLength

\* begin(): a fixed password that is long enough switches encryption on
EncryptionAfterPassword(encryption, password) ==
    IF Len(password) # 0 /\ Len(password) >= getMinimumSecretLength
    THEN "secured"
    ELSE encryption

BeginPassword ==
    /\ pc = "begin"
    /\ setupModeWifiEncryption_' =
           EncryptionAfterPassword(setupModeWifiEncryption_, fixedPassword)
    /\ pc' = "load"
    /\ UNCHANGED << resetReason, configuration, preferencesOpen,
                    bootCounter, counterAtCheck, flagAtCheck, escalations,
                    restartIssuer, streak, consecutive, afterForce,
                    earlierEscalations, followsEscalation >>
    /\ UNCHANGED persistent
    /\ UNCHANGED network

\* begin(): load the configuration, reset it when that fails
ConfigurationLoad ==
    /\ pc = "load"
    /\ configuration' =
           IF ConfigLoadOk(spiffs) THEN spiffs.content ELSE ConfigReset
    /\ pc' = "check_open"
    /\ UNCHANGED << resetReason, preferencesOpen, bootCounter,
                    setupModeWifiEncryption_, counterAtCheck, flagAtCheck,
                    escalations, restartIssuer, streak, consecutive,
                    afterForce, earlierEscalations, followsEscalation >>
    /\ UNCHANGED persistent
    /\ UNCHANGED network

---------------------------------------------------------------------------
(* Basecamp::checkResetReason() *)

\* faulty variant: a brown-out reset counts as suspicious too
IsSuspiciousOrBrownOut(reason) ==
    reason = POWERON_RESET \/ reason = RTCWDT_RTC_RESET
        \/ reason \in OtherHardwareReasons

\* reason == 1 || reason == 16
IsSuspicious(reason) == reason = POWERON_RESET \/ reason = RTCWDT_RTC_RESET

\* faulty variant: the counter is incremented twice
IncrementTwice(c) == c + 2

\* bootCounter++ (the counter stays far below the width of unsigned int)
Increment(c) == c + 1

\* faulty variant: the network reset is forced one boot early
ForceNetworkConditionEarly(c) == c > bootCounterWipeLimit

\* faulty variant: the network reset is forced one boot late
ForceNetworkConditionLate(c) == c > bootCounterNetworkLimit + 1

\* bootCounter > 3
ForceNetworkCondition(c) == c > bootCounterNetworkLimit

\* faulty variant: the flag is not consulted before the wipe
ForceWipeConditionAnyFlag(c, cfg) == c > bootCounterWipeLimit

\* faulty variant: the wipe is forced one boot early
ForceWipeConditionEarly(c, cfg) ==
    /\ c > bootCounterWipeLimit - 1
    /\ EqualsIgnoreCase(ConfigGet(cfg, KeyWifiConfigured), StrFalse)

\* faulty variant: the wipe waits for the limit of the network reset
ForceWipeConditionLate(c, cfg) ==
    /\ c > bootCounterNetworkLimit
    /\ EqualsIgnoreCase(ConfigGet(cfg, KeyWifiConfigured), StrFalse)

\* bootCounter > 2 && wifiConfigured.equalsIgnoreCase("false")
ForceWipeCondition(c, cfg) ==
    /\ c > bootCounterWipeLimit
    /\ EqualsIgnoreCase(ConfigGet(cfg, KeyWifiConfigured), StrFalse)

\* history: a streak starts at counter 0 with the flag "true"
StreakAfter(s, c, cfg) ==
    IF s = 0
    THEN IF c = 0 /\ ConfigGet(cfg, KeyWifiConfigured) = StrTrue THEN 1 ELSE 0
    ELSE IF s <= bootCounterNetworkLimit + 1 THEN s + 1 ELSE s

\* history: one more suspicious boot in a row
ConsecutiveAfter(n) ==
    IF n <= bootCounterNetworkLimit + 1 THEN n + 1 ELSE n

checkFrame ==
    << resetReason, operationMode_, eventHandler, setupModeWifiEncryption_,
       ctorEncryption, fixedPassword, cleanStart, callInput, callOutput,
       softAP, softAPSecret, staBegun, reconnects, linkLost,
       configuredAtBegin, configuredArg, lastEvent >>

\* preferences.begin("basecamp", false); rtc_get_reset_reason(0)
CheckOpen ==
    /\ pc = "check_open"
    /\ preferencesOpen' = TRUE
    /\ pc' = "check_reason"
    /\ UNCHANGED << nvsBootcounter, spiffs, configuration, bootCounter,
                    counterAtCheck, flagAtCheck, escalations,
                    restartIssuer, streak, consecutive, afterForce,
                    earlierEscalations, followsEscalation >>
    /\ UNCHANGED checkFrame

\* a suspicious cause: read the counter and increment it
CheckSuspicious ==
    /\ pc = "check_reason"
    /\ IsSuspicious(resetReason)
    /\ bootCounter' = Increment(nvsBootcounter)
    /\ counterAtCheck' = nvsBootcounter
    /\ flagAtCheck' = ConfigGet(configuration, KeyWifiConfigured)
    /\ streak' = StreakAfter(streak, nvsBootcounter, configuration)
    /\ consecutive' = ConsecutiveAfter(consecutive)
    /\ pc' = "check_count"
    /\ UNCHANGED << nvsBootcounter, spiffs, configuration, preferencesOpen,
                    escalations, restartIssuer, afterForce,
                    earlierEscalations, followsEscalation >>
    /\ UNCHANGED checkFrame

\* faulty variant: any other cause leaves the counter as it was
CheckIntentionalKeepsCounter ==
    /\ pc = "check_reason"
    /\ ~IsSuspicious(resetReason)
    /\ counterAtCheck' = nvsBootcounter
    /\ flagAtCheck' = ConfigGet(configuration, KeyWifiConfigured)
    /\ streak' = 0
    /\ consecutive' = 0
    /\ pc' = "check_end"
    /\ UNCHANGED << nvsBootcounter, spiffs, configuration, preferencesOpen,
                    bootCounter, escalations, restartIssuer, afterForce,
                    earlierEscalations, followsEscalation >>
    /\ UNCHANGED checkFrame

\* any other cause: the counter is reset
CheckIntentional ==
    /\ pc = "check_reason"
    /\ ~IsSuspicious(resetReason)
    /\ nvsBootcounter' = 0
    /\ counterAtCheck' = nvsBootcounter
    /\ flagAtCheck' = ConfigGet(configuration, KeyWifiConfigured)
    /\ streak' = 0
    /\ consecutive' = 0
    /\ pc' = "check_end"
    /\ UNCHANGED << spiffs, configuration, preferencesOpen, bootCounter,
                    escalations, restartIssuer, afterForce,
                    earlierEscalations, followsEscalation >>
    /\ UNCHANGED checkFrame

\* bootCounter > 3: mark the WiFi configuration invalid and save it
CheckForceNetwork ==
    /\ pc = "check_count"
    /\ ForceNetworkCondition(bootCounter)
    /\ configuration' =
           ConfigSet(configuration, KeyWifiConfigured, StrFalseCapital)
    /\ spiffs' = FileOf(configuration')
    /\ escalations' = escalations \cup { "network" }
    /\ afterForce' = IF streak = bootCounterNetworkLimit + 1 THEN 1 ELSE 0
    /\ UNCHANGED << earlierEscalations, followsEscalation >>
    /\ pc' = "network_put"
    /\ UNCHANGED << nvsBootcounter, preferencesOpen, bootCounter,
                    counterAtCheck, flagAtCheck, restartIssuer, streak,
                    consecutive >>
    /\ UNCHANGED checkFrame

\* faulty variant: the counter is not reset before the restart
NetworkPutKeepsCounter ==
    /\ pc = "network_put"
    /\ pc' = "network_end"
    /\ UNCHANGED << nvsBootcounter, spiffs, configuration, preferencesOpen,
                    bootCounter, counterAtCheck, flagAtCheck, escalations,
                    restartIssuer, streak, consecutive, afterForce,
                    earlierEscalations, followsEscalation >>
    /\ UNCHANGED checkFrame

\* preferences.putUInt("bootcounter", 0) of the network branch
NetworkPut ==
    /\ pc = "network_put"
    /\ nvsBootcounter' = 0
    /\ pc' = "network_end"
    /\ UNCHANGED << spiffs, configuration, preferencesOpen, bootCounter,
                    counterAtCheck, flagAtCheck, escalations,
                    restartIssuer, streak, consecutive, afterForce,
                    earlierEscalations, followsEscalation >>
    /\ UNCHANGED checkFrame

\* preferences.end() of the network branch
NetworkEnd ==
    /\ pc = "network_end"
    /\ preferencesOpen' = FALSE
    /\ pc' = "network_restart"
    /\ UNCHANGED << nvsBootcounter, spiffs, configuration, bootCounter,
                    counterAtCheck, flagAtCheck, escalations,
                    restartIssuer, streak, consecutive, afterForce,
                    earlierEscalations, followsEscalation >>
    /\ UNCHANGED checkFrame

\* faulty variant: no restart, the check returns through its last line
NetworkRestartFallsThrough ==
    /\ pc = "network_restart"
    /\ pc' = "apsecret"
    /\ UNCHANGED << nvsBootcounter, spiffs, configuration, preferencesOpen,
                    bootCounter, counterAtCheck, flagAtCheck, escalations,
                    restartIssuer, streak, consecutive, afterForce,
                    earlierEscalations, followsEscalation >>
    /\ UNCHANGED checkFrame

\* ESP.restart() of the network branch
NetworkRestart ==
    /\ pc = "network_restart"
    /\ restartIssuer' = "tracker"
    /\ pc' = "restarting"
    /\ UNCHANGED << nvsBootcounter, spiffs, configuration, preferencesOpen,
                    bootCounter, counterAtCheck, flagAtCheck, escalations,
                    streak, consecutive, afterForce, earlierEscalations,
                    followsEscalation >>
    /\ UNCHANGED checkFrame

\* bootCounter > 2 and the flag reads "false": format the flash storage
CheckForceWipe ==
    /\ pc = "check_count"
    /\ ~ForceNetworkCondition(bootCounter)
    /\ ForceWipeCondition(bootCounter, configuration)
    /\ spiffs' = NoFile
    /\ escalations' = escalations \cup { "wipe" }
    /\ pc' = "wipe_put"
    /\ UNCHANGED << nvsBootcounter, configuration, preferencesOpen,
                    bootCounter, counterAtCheck, flagAtCheck,
                    restartIssuer, streak, consecutive, afterForce,
                    earlierEscalations, followsEscalation >>
    /\ UNCHANGED checkFrame

\* preferences.putUInt("bootcounter", 0) of the wipe branch
WipePut ==
    /\ pc = "wipe_put"
    /\ nvsBootcounter' = 0
    /\ pc' = "wipe_end"
    /\ UNCHANGED << spiffs, configuration, preferencesOpen, bootCounter,
                    counterAtCheck, flagAtCheck, escalations,
                    restartIssuer, streak, consecutive, afterForce,
                    earlierEscalations, followsEscalation >>
    /\ UNCHANGED checkFrame

\* faulty variant: the handle is still open when the restart is issued
WipeEndLeavesOpen ==
    /\ pc = "wipe_end"
    /\ pc' = "wipe_restart"
    /\ UNCHANGED << nvsBootcounter, spiffs, configuration, preferencesOpen,
                    bootCounter, counterAtCheck, flagAtCheck, escalations,
                    restartIssuer, streak, consecutive, afterForce,
                    earlierEscalations, followsEscalation >>
    /\ UNCHANGED checkFrame

\* preferences.end() of the wipe branch
WipeEnd ==
    /\ pc = "wipe_end"
    /\ preferencesOpen' = FALSE
    /\ pc' = "wipe_restart"
    /\ UNCHANGED << nvsBootcounter, spiffs, configuration, bootCounter,
                    counterAtCheck, flagAtCheck, escalations,
                    restartIssuer, streak, consecutive, afterForce,
                    earlierEscalations, followsEscalation >>
    /\ UNCHANGED checkFrame

\* ESP.restart() of the wipe branch
WipeRestart ==
    /\ pc = "wipe_restart"
    /\ restartIssuer' = "tracker"
    /\ pc' = "restarting"
    /\ UNCHANGED << nvsBootcounter, spiffs, configuration, preferencesOpen,
                    bootCounter, counterAtCheck, flagAtCheck, escalations,
                    streak, consecutive, afterForce, earlierEscalations,
                    followsEscalation >>
    /\ UNCHANGED checkFrame

\* faulty variant: the flag is marked invalid when the count is stored
CheckStoreMarksUnconfigured ==
    /\ pc = "check_count"
    /\ ~ForceNetworkCondition(bootCounter)
    /\ ~ForceWipeCondition(bootCounter, configuration)
    /\ nvsBootcounter' = bootCounter
    /\ configuration' =
           ConfigSet(configuration, KeyWifiConfigured, StrFalseCapital)
    /\ pc' = "check_end"
    /\ UNCHANGED << spiffs, preferencesOpen, bootCounter,
                    counterAtCheck, flagAtCheck, escalations,
                    restartIssuer, streak, consecutive, afterForce,
                    earlierEscalations, followsEscalation >>
    /\ UNCHANGED checkFrame

\* in every other case: store the current boot count
CheckStore ==
    /\ pc = "check_count"
    /\ ~ForceNetworkCondition(bootCounter)
    /\ ~ForceWipeCondition(bootCounter, configuration)
    /\ nvsBootcounter' = bootCounter
    /\ pc' = "check_end"
    /\ UNCHANGED << spiffs, configuration, preferencesOpen, bootCounter,
                    counterAtCheck, flagAtCheck, escalations,
                    restartIssuer, streak, consecutive, afterForce,
                    earlierEscalations, followsEscalation >>
    /\ UNCHANGED checkFrame

\* faulty variant: the handle is left open when the check returns
CheckEndLeavesOpen ==
    /\ pc = "check_end"
    /\ pc' = "apsecret"
    /\ UNCHANGED << nvsBootcounter, spiffs, configuration, preferencesOpen,
                    bootCounter, counterAtCheck, flagAtCheck, escalations,
                    restartIssuer, streak, consecutive, afterForce,
                    earlierEscalations, followsEscalation >>
    /\ UNCHANGED checkFrame

\* preferences.end() on the paths that return
CheckEnd ==
    /\ pc = "check_end"
    /\ preferencesOpen' = FALSE
    /\ pc' = "apsecret"
    /\ UNCHANGED << nvsBootcounter, spiffs, configuration, bootCounter,
                    counterAtCheck, flagAtCheck, escalations,
                    restartIssuer, streak, consecutive, afterForce,
                    earlierEscalations, followsEscalation >>
    /\ UNCHANGED checkFrame

---------------------------------------------------------------------------
(* Basecamp::begin(), after the resilience check *)

\* faulty variant: the requested length is used as it is
generateRandomSecretNoFloor(length, draws) ==
    [i \in 1..length |-> validChars[(draws[i] % Len(validChars)) + 1]]

\* WifiControl::generateRandomSecret, draws[i] the i-th value of esp_random()
generateRandomSecret(length, draws) ==
    LET useLength ==
            IF length < minApSecretLength THEN minApSecretLength ELSE length
    IN  [i \in 1..useLength |->
            validChars[(draws[i] % Len(validChars)) + 1]]

\* begin(): the access point secret is (re)written when none is set yet or
\* when a fixed password of sufficient length is given
ApSecretIsWritten(cfg, password) ==
    \/ ~ConfigIsKeySet(cfg, KeyAccessPointSecret)
    \/ Len(password) >= getMinimumSecretLength

\* faulty variant: any fixed password is used, whatever its length
ApSecretChosenAnyPassword(password, draws) ==
    IF Len(password) = 0
    THEN generateRandomSecret(defaultApSecretLength, draws)
    ELSE password

\* begin(): the fixed password, or a generated secret when it is too short
ApSecretChosen(password, draws) ==
    IF Len(password) < getMinimumSecretLength
    THEN generateRandomSecret(defaultApSecretLength, draws)
    ELSE password

ApSecret ==
    /\ pc = "apsecret"
    /\ IF ApSecretIsWritten(configuration, fixedPassword)
       THEN \E draws \in RandomDraws :
               /\ configuration' =
                      ConfigSet(configuration, KeyAccessPointSecret,
                                ApSecretChosen(fixedPassword, draws))
               /\ spiffs' = FileOf(configuration')
       ELSE UNCHANGED << configuration, spiffs >>
    /\ pc' = "netbegin"
    /\ UNCHANGED << resetReason, nvsBootcounter, preferencesOpen,
                    bootCounter, setupModeWifiEncryption_, ctorEncryption,
                    fixedPassword, cleanStart, callInput, callOutput,
                    counterAtCheck, flagAtCheck, escalations,
                    restartIssuer, streak, consecutive, afterForce,
                    earlierEscalations, followsEscalation >>
    /\ UNCHANGED network

---------------------------------------------------------------------------
(* WifiControl::begin() *)

\* faulty variant: the flag is compared case-sensitively
SelectsClientExact(configured) == EqualsExactly(configured, StrTrue)

\* _wifiConfigured.equalsIgnoreCase("true")
SelectsClient(configured) == EqualsIgnoreCase(configured, StrTrue)

\* the secret begin() hands over: none when encryption is off
ApSecretArgument(encryption, cfg) ==
    IF encryption = "none"
    THEN StrEmpty
    ELSE ConfigGet(cfg, KeyAccessPointSecret)

\* the handler is registered, then the mode is selected
WifiControlBegin(configured, apSecret) ==
    /\ configuredArg' = configured
    /\ eventHandler' = TRUE
    /\ IF SelectsClient(configured)
       THEN /\ operationMode_' = "client"
            /\ staBegun' = TRUE
            /\ UNCHANGED << softAP, softAPSecret >>
       ELSE /\ operationMode_' = "accessPoint"
            /\ softAP' = IF Len(apSecret) > 0 THEN "protected" ELSE "open"
            /\ softAPSecret' = apSecret
            /\ UNCHANGED staBegun

NetworkBegin ==
    /\ pc = "netbegin"
    /\ WifiControlBegin(
           ConfigGet(configuration, KeyWifiConfigured),
           ApSecretArgument(setupModeWifiEncryption_, configuration))
    /\ configuredAtBegin' = PersistedFlag(spiffs)
    /\ pc' = "running"
    /\ UNCHANGED << resetReason, configuration, preferencesOpen,
                    bootCounter, setupModeWifiEncryption_, reconnects,
                    linkLost, lastEvent, counterAtCheck, flagAtCheck,
                    escalations, restartIssuer, streak, consecutive,
                    afterForce, earlierEscalations, followsEscalation >>
    /\ UNCHANGED persistent

---------------------------------------------------------------------------
(* WifiControl::WiFiEvent() *)

\* faulty variant: an acquired address does not reset the counter
CounterKeptOnEvent(event, c) == c

\* faulty variant: every event but a link loss resets the counter
CounterResetUnlessLinkLost(event, c) ==
    IF event # "STA_DISCONNECTED" THEN 0 ELSE c

\* the counter after an event was handled
CounterAfterEvent(event, c) == IF event = "STA_GOT_IP" THEN 0 ELSE c

\* faulty variant: only the first link loss is answered with a reconnect
ReconnectsCapped(event, n) ==
    IF event = "STA_DISCONNECTED" /\ n < 1 THEN n + 1 ELSE n

\* WiFi.reconnect() calls after an event was handled
ReconnectsAfterEvent(event, n) ==
    IF event = "STA_DISCONNECTED" THEN n + 1 ELSE n

\* faulty variant: an acquired address switches to client mode
ModeSwitchedOnEvent(event, mode) ==
    IF event = "STA_GOT_IP" THEN "client" ELSE mode

\* the operation mode after an event was handled: no case assigns it
ModeAfterEvent(event, mode) == mode

WiFiEvent(event) ==
    /\ eventHandler
    /\ pc \in { "running", "saved" }
    /\ event = "STA_DISCONNECTED" => linkLost < MaxReconnects
    /\ nvsBootcounter' = CounterAfterEvent(event, nvsBootcounter)
    /\ reconnects' = ReconnectsAfterEvent(event, reconnects)
    /\ operationMode_' = ModeAfterEvent(event, operationMode_)
    /\ lastEvent' = << event, lastEvent[1] >>
    /\ streak' = IF event = "STA_GOT_IP" THEN 0 ELSE streak
    /\ consecutive' = IF event = "STA_GOT_IP" THEN 0 ELSE consecutive
    /\ linkLost' = IF event = "STA_DISCONNECTED" THEN linkLost + 1
                                                ELSE linkLost
    /\ UNCHANGED << pc, resetReason, spiffs, configuration,
                    preferencesOpen, bootCounter, eventHandler,
                    setupModeWifiEncryption_, ctorEncryption,
                    fixedPassword, cleanStart, callInput, callOutput,
                    softAP, softAPSecret, staBegun, counterAtCheck,
                    flagAtCheck, escalations, restartIssuer,
                    configuredAtBegin, configuredArg, afterForce,
                    earlierEscalations, followsEscalation >>

---------------------------------------------------------------------------
(* The setup UI and resets *)

\* the setup form is saved: its hidden WifiConfigured field has the value
\* "true"; the configuration is stored and a restart is scheduled
WebSave ==
    /\ pc = "running"
    /\ configuration' = ConfigSet(configuration, KeyWifiConfigured, StrTrue)
    /\ spiffs' = FileOf(configuration')
    /\ pc' = "saved"
    /\ UNCHANGED << resetReason, nvsBootcounter, preferencesOpen,
                    bootCounter, setupModeWifiEncryption_, ctorEncryption,
                    fixedPassword, cleanStart, callInput, callOutput,
                    counterAtCheck, flagAtCheck, escalations,
                    restartIssuer, streak, consecutive, afterForce,
                    earlierEscalations, followsEscalation >>
    /\ UNCHANGED network

\* the callback handed to web.begin(): delay(2000); ESP.restart()
WebRestart ==
    /\ pc = "saved"
    /\ restartIssuer' = "web"
    /\ pc' = "restarting"
    /\ UNCHANGED << resetReason, configuration, preferencesOpen,
                    bootCounter, setupModeWifiEncryption_, counterAtCheck,
                    flagAtCheck, escalations, streak, consecutive,
                    afterForce, earlierEscalations, followsEscalation >>
    /\ UNCHANGED persistent
    /\ UNCHANGED network

\* ESP.restart() takes effect: the next boot reports a software reset
Reboot ==
    /\ pc = "restarting"
    /\ \E reason \in SoftwareResetReasons : BootState(reason)
    /\ afterForce' = IF afterForce = 1 THEN 2 ELSE 0
    /\ earlierEscalations' = earlierEscalations \cup escalations
    /\ followsEscalation' = (escalations # {})
    /\ consecutive' = IF escalations # {} THEN 0 ELSE consecutive
    /\ UNCHANGED streak

\* power cycle, reset button or brown-out while the application runs; the
\* resilience check itself runs to completion
HardwareReset(reason) ==
    /\ pc \in { "apsecret", "netbegin", "running", "saved" }
    /\ BootState(reason)
    /\ afterForce' = 0
    /\ followsEscalation' = FALSE
    /\ UNCHANGED << streak, consecutive, earlierEscalations >>

---------------------------------------------------------------------------

Next ==
    \/ BeginPassword
    \/ ConfigurationLoad
    \/ CheckOpen
    \/ CheckSuspicious
    \/ CheckIntentional
    \/ CheckForceNetwork
    \/ NetworkPut
    \/ NetworkEnd
    \/ NetworkRestart
    \/ CheckForceWipe
    \/ WipePut
    \/ WipeEnd
    \/ WipeRestart
    \/ CheckStore
    \/ CheckEnd
    \/ ApSecret
    \/ NetworkBegin
    \/ \E event \in NetworkEvents : WiFiEvent(event)
    \/ WebSave
    \/ WebRestart
    \/ Reboot
    \/ \E reason \in HardwareResetReasons : HardwareReset(reason)

Spec == Init /\ [][Next]_vars

---------------------------------------------------------------------------
(* Properties *)

\* every spelling of a word in upper and lower case letters
Spellings(lower, upper) ==
    { [i \in 1..Len(lower) |-> IF i \in S THEN upper[i] ELSE lower[i]] :
        S \in SUBSET (1..Len(lower)) }

TrueSpellings == Spellings(<< "t","r","u","e" >>, << "T","R","U","E" >>)

FalseSpellings ==
    Spellings(<< "f","a","l","s","e" >>, << "F","A","L","S","E" >>)

SuspiciousBoot == resetReason \in { 1, 16 }

\* the check has not yet taken its branch
BeforeBranch ==
    pc \in { "begin", "load", "check_open", "check_reason", "check_count" }

NetworkBranch == { "network_put", "network_end", "network_restart" }

WipeBranch == { "wipe_put", "wipe_end", "wipe_restart" }

\* the check has returned and no event was handled since
CheckReturned ==
    /\ pc \in { "apsecret", "netbegin", "running", "saved" }
    /\ lastEvent = NoEvents

\* C1: on a suspicious boot that finds the counter at c with c + 1 <= 2, the
\* check takes no escalation branch and issues no restart, and when it has
\* returned the persisted counter is c + 1.
C1_SmallCounterIsStored ==
    (SuspiciousBoot /\ ~BeforeBranch /\ counterAtCheck + 1 <= 2) =>
        /\ pc \notin NetworkBranch \cup WipeBranch
        /\ escalations = {}
        /\ restartIssuer # "tracker"
        /\ pc = "check_end" \/ CheckReturned =>
               nvsBootcounter = counterAtCheck + 1

C1_Witness ==
    /\ pc = "netbegin"
    /\ resetReason = 16
    /\ counterAtCheck = 1
    /\ nvsBootcounter = 2

\* C2: on a suspicious boot that finds the counter at 3 or more, whatever the
\* flag is, the check takes the network branch only: the flag is set to a
\* value that is not "true" and saved, storage is not wiped, and when the
\* restart is issued the persisted counter is 0.
C2_LargeCounterForcesNetworkReset ==
    (SuspiciousBoot /\ ~BeforeBranch /\ counterAtCheck >= 3) =>
        /\ pc \in NetworkBranch \cup { "restarting" }
        /\ escalations = { "network" }
        /\ spiffs.exists
        /\ PersistedFlag(spiffs) \notin TrueSpellings
        /\ spiffs.content = configuration
        /\ pc = "restarting" =>
               nvsBootcounter = 0 /\ restartIssuer = "tracker"

C2_Witness ==
    /\ pc = "restarting"
    /\ resetReason = 1
    /\ counterAtCheck = 3
    /\ flagAtCheck = << "f","a","l","s","e" >>
    /\ nvsBootcounter = 0
    /\ PersistedFlag(spiffs) \in FalseSpellings

\* C3: on a suspicious boot that finds the counter at 2 while the flag reads
\* "false" (in any case), the check takes the wipe branch only: the storage is
\* formatted, the flag is not written, and when the restart is issued the
\* persisted counter is 0.
C3_WipeAtThreeWhenUnconfigured ==
    ( /\ SuspiciousBoot
      /\ ~BeforeBranch
      /\ counterAtCheck = 2
      /\ flagAtCheck \in FalseSpellings ) =>
        /\ pc \in WipeBranch \cup { "restarting" }
        /\ escalations = { "wipe" }
        /\ ~spiffs.exists
        /\ ConfigGet(configuration, KeyWifiConfigured) = flagAtCheck
        /\ pc = "restarting" =>
               nvsBootcounter = 0 /\ restartIssuer = "tracker"

C3_Witness ==
    /\ pc = "restarting"
    /\ resetReason = 16
    /\ counterAtCheck = 2
    /\ escalations = { "wipe" }
    /\ ~spiffs.exists
    /\ nvsBootcounter = 0
    /\ flagAtCheck = << "F","a","l","s","e" >>

\* C4: on a boot whose reset cause is neither 1 nor 16 the check writes 0 to
\* the persisted counter whatever it found, takes no escalation branch and
\* issues no restart.
C4_OtherCauseClearsCounter ==
    ( /\ ~SuspiciousBoot
      /\ pc \notin { "begin", "load", "check_open", "check_reason" } ) =>
        /\ pc \notin { "check_count" } \cup NetworkBranch \cup WipeBranch
        /\ nvsBootcounter = 0
        /\ escalations = {}
        /\ restartIssuer # "tracker"

C4_Witness ==
    /\ pc = "apsecret"
    /\ resetReason = 15
    /\ counterAtCheck = 3
    /\ nvsBootcounter = 0

\* C5: after an address-acquired event was handled the persisted counter is
\* 0, whatever it was before, and it is still 0 after the event was handled
\* again.
C5_GotIpClearsCounter ==
    lastEvent[1] = "STA_GOT_IP" => nvsBootcounter = 0

C5_Witness ==
    /\ lastEvent = << "STA_GOT_IP", "STA_GOT_IP" >>
    /\ SuspiciousBoot
    /\ counterAtCheck = 2
    /\ nvsBootcounter = 0

\* C6: when WifiControl::begin() has run, the mode is client with a
\* connection attempt started if the flag it was given is a spelling of
\* "true", and access point with an access point started otherwise.
C6_BeginSelectsMode ==
    pc \in { "running", "saved" } =>
        IF configuredArg \in TrueSpellings
        THEN operationMode_ = "client" /\ staBegun /\ softAP = "off"
        ELSE operationMode_ = "accessPoint" /\ softAP # "off" /\ ~staBegun

C6_Witness ==
    /\ pc = "running"
    /\ configuredArg = << "T","R","U","E" >>
    /\ operationMode_ = "client"
    /\ staBegun

\* C7: from begin() until the next reset the mode is client exactly if the
\* persisted flag was a spelling of "true" when begin() ran, and no step of
\* the session (an event, a save of the setup form) changes the mode.
C7_ModeFixedForSession ==
    /\ [](eventHandler =>
            (operationMode_ = "client" <=> configuredAtBegin \in TrueSpellings))
    /\ [][eventHandler /\ eventHandler' => operationMode_' = operationMode_]_vars

C7_Witness ==
    /\ pc = "saved"
    /\ operationMode_ = "accessPoint"
    /\ configuredAtBegin \notin TrueSpellings
    /\ PersistedFlag(spiffs) = << "t","r","u","e" >>
    /\ lastEvent[1] = "STA_GOT_IP"

C9_OneEscalationThenRestart ==
    /\ Cardinality(escalations) <= 1
    /\ escalations # {} =>
           /\ pc \in NetworkBranch \cup WipeBranch \cup { "restarting" }
           /\ pc = "restarting" => restartIssuer = "tracker"
           /\ operationMode_ = "uninitialized"
           /\ ~eventHandler
           /\ ~staBegun
           /\ softAP = "off"

C9_Witness ==
    /\ escalations = { "wipe" }
    /\ pc = "restarting"
    /\ restartIssuer = "tracker"

\* C10: the handle of the check is open only inside the check; when the
\* event handler is registered or networking is started, the check has
\* returned and its handle is closed, so every event is handled with the
\* handle closed.
C10_CheckCompletesBeforeNetwork ==
    /\ preferencesOpen =>
           pc \in { "check_reason", "check_count", "check_end",
                    "network_put", "network_end", "wipe_put", "wipe_end" }
    /\ (eventHandler \/ operationMode_ # "uninitialized" \/ staBegun
            \/ softAP # "off" \/ lastEvent # NoEvents) =>
           /\ ~preferencesOpen
           /\ pc \in { "running", "saved", "restarting" }

C10_Witness ==
    /\ lastEvent[1] = "STA_GOT_IP"
    /\ ~preferencesOpen
    /\ SuspiciousBoot
    /\ counterAtCheck = 1
    /\ nvsBootcounter = 0

\* C11: on a device started at counter 0 with the flag "true", where only the
\* check ever writes a flag that is not "true", the storage is wiped only
\* after an earlier boot has forced a network reconfiguration.
C11_WipeOnlyAfterNetworkReset ==
    (cleanStart /\ "wipe" \in escalations) =>
        "network" \in earlierEscalations

C11_Witness ==
    /\ cleanStart
    /\ escalations = { "wipe" }
    /\ earlierEscalations = { "network" }
    /\ pc = "restarting"

\* C12: the boot that follows the restart of an escalation is not suspicious
\* and performs no escalation, and a boot that escalates after an earlier
\* escalation is at least the third suspicious boot in a row since then.
C12_NoThrash ==
    /\ followsEscalation =>
           /\ resetReason \notin { 1, 16 }
           /\ escalations = {}
           /\ pc \notin NetworkBranch \cup WipeBranch
    /\ (earlierEscalations # {} /\ escalations # {}) => consecutive >= 3

C12_Witness ==
    /\ earlierEscalations = { "network" }
    /\ escalations = { "wipe" }
    /\ consecutive = 3
    /\ pc = "wipe_put"

\* C13: every link-lost event handled has issued exactly one reconnect
\* request, however many came before it in the session, and it leaves the
\* mode as begin() selected it and issues no restart.
C13_LinkLostReconnectsOnce ==
    /\ reconnects = linkLost
    /\ linkLost > 0 =>
           /\ operationMode_ = "client" <=> configuredArg \in TrueSpellings
           /\ operationMode_ # "uninitialized"
           /\ pc \in { "running", "saved", "restarting" }
           /\ pc = "restarting" => restartIssuer = "web"
           /\ pc # "restarting" => restartIssuer = "none"

C13_Witness ==
    /\ lastEvent = << "STA_DISCONNECTED", "STA_DISCONNECTED" >>
    /\ linkLost = 2
    /\ reconnects = 2
    /\ pc = "running"

\* C14: in both escalation branches the changed configuration is saved and
\* 0 is written to the counter while the handle is open, and the handle is
\* closed before the restart is issued; when the check has returned without
\* a restart the handle is closed.
C14_WritesAndCloseBeforeRestart ==
    /\ pc \in NetworkBranch \cup WipeBranch =>
           /\ "network" \in escalations =>
                  /\ spiffs.exists
                  /\ PersistedFlag(spiffs) = << "F","a","l","s","e" >>
           /\ "wipe" \in escalations => ~spiffs.exists
    /\ pc \in { "network_put", "wipe_put" } => preferencesOpen
    /\ pc \in { "network_end", "wipe_end" } =>
           nvsBootcounter = 0 /\ preferencesOpen
    /\ ( \/ pc \in { "network_restart", "wipe_restart" }
         \/ pc = "restarting" /\ restartIssuer = "tracker" ) =>
           nvsBootcounter = 0 /\ ~preferencesOpen
    /\ pc \in { "apsecret", "netbegin", "running", "saved" } =>
           ~preferencesOpen

C14_Witness ==
    /\ pc = "network_restart"
    /\ counterAtCheck = 3
    /\ nvsBootcounter = 0
    /\ ~preferencesOpen
    /\ PersistedFlag(spiffs) = << "F","a","l","s","e" >>

\* the access point secret a configuration holds
SecretOf(cfg) == ConfigGet(cfg, KeyAccessPointSecret)

\* C15: with any non-empty fixed password the encryption is secured once
\* begin() has looked at the password, and an access point of that boot is
\* password protected.
C15_AnyPasswordSecures ==
    (Len(fixedPassword) > 0 /\ pc # "begin") =>
        /\ setupModeWifiEncryption_ = "secured"
        /\ softAP # "off" => softAP = "protected"

---------------------------------------------------------------------------
(* The utility functions of WifiControl, called on their own *)

\* the program at rest: a utility call touches none of its state
AtRest ==
    /\ pc = "begin"
    /\ resetReason = POWERON_RESET
    /\ nvsBootcounter = 0
    /\ spiffs = NoFile
    /\ configuration = EmptyConfiguration
    /\ preferencesOpen = FALSE
    /\ bootCounter = 0
    /\ operationMode_ = "uninitialized"
    /\ eventHandler = FALSE
    /\ ctorEncryption = "none"
    /\ setupModeWifiEncryption_ = "none"
    /\ fixedPassword = StrEmpty
    /\ softAP = "off"
    /\ softAPSecret = StrEmpty
    /\ staBegun = FALSE
    /\ reconnects = 0
    /\ counterAtCheck = 0
    /\ flagAtCheck = StrEmpty
    /\ escalations = {}
    /\ restartIssuer = "none"
    /\ configuredAtBegin = StrEmpty
    /\ configuredArg = StrEmpty
    /\ lastEvent = NoEvents
    /\ streak = 0
    /\ afterForce = 0
    /\ linkLost = 0
    /\ consecutive = 0
    /\ earlierEscalations = {}
    /\ followsEscalation = FALSE
    /\ cleanStart = FALSE

programState ==
    << pc, resetReason, nvsBootcounter, spiffs, configuration,
       preferencesOpen, bootCounter, operationMode_, eventHandler,
       setupModeWifiEncryption_, ctorEncryption, fixedPassword, softAP,
       softAPSecret, staBegun, reconnects, counterAtCheck, flagAtCheck,
       escalations, restartIssuer, configuredAtBegin, configuredArg,
       lastEvent, streak, afterForce, linkLost, consecutive,
       earlierEscalations, followsEscalation, cleanStart >>

\* the largest length a secret is requested with
MaxSecretLength == 9

\* values esp_random() yields: the index of "o", the last index of the
\* alphabet, and one past it
RandomSample == { 12, 60, 61 }

\* the number of draws a call with this length consumes
DrawsNeeded(length) ==
    IF length < minApSecretLength THEN minApSecretLength ELSE length

SecretInit ==
    /\ AtRest
    /\ callInput \in { << length >> : length \in 0..MaxSecretLength }
    /\ callOutput = NoCall

\* one call of generateRandomSecret(length); draws are the values
\* esp_random() yields during the call
SecretCall ==
    /\ callOutput = NoCall
    /\ \E draws \in [1..DrawsNeeded(callInput[1]) -> RandomSample] :
          callOutput' = generateRandomSecret(callInput[1], draws)
    /\ UNCHANGED callInput
    /\ UNCHANGED programState

SecretNext == SecretCall

SecretSpec == SecretInit /\ [][SecretNext]_vars

\* the characters a secret may be made of
SecretAlphabet ==
    { "a", "b", "c", "d", "e", "f", "g", "h", "j", "k", "m", "n", "o", "p",
      "q", "r", "s", "t", "u", "v", "w", "x", "y", "z",
      "A", "B", "C", "D", "E", "F", "G", "H", "J", "K", "M", "N", "P",
      "Q", "R", "S", "T", "U", "V", "W", "X", "Y", "Z",
      "2", "3", "4", "5", "6", "7", "8", "9",
      ".", "-", ",", ":", "$", "/" }

\* C17: generateRandomSecret(length) returns exactly max(length, 8)
\* characters, each one of the alphabet and none of them "O", whatever the
\* random source yields.
C17_SecretLengthAndAlphabet ==
    callOutput # NoCall =>
        /\ Len(callOutput) =
              IF callInput[1] > 8 THEN callInput[1] ELSE 8
        /\ \A i \in 1..Len(callOutput) :
              callOutput[i] \in SecretAlphabet /\ callOutput[i] # "O"

C17_Witness ==
    /\ callInput[1] = 3
    /\ callOutput = << "o", "/", "a", "o", "/", "a", "o", "/" >>

---------------------------------------------------------------------------
(* format6Bytes, WifiControl.cpp *)

\* operator<< of an unsigned value under std::hex: lowercase digits, no
\* leading zeros
DigitOf(v) ==
    IF v < 10
    THEN << "0", "1", "2", "3", "4", "5", "6", "7", "8", "9" >>[v + 1]
    ELSE << "a", "b", "c", "d", "e", "f" >>[v - 9]

RECURSIVE HexOf(_)
HexOf(n) ==
    IF n < 16
    THEN << DigitOf(n) >>
    ELSE HexOf(n \div 16) \o << DigitOf(n % 16) >>

\* std::setw(width) with std::setfill(fill): pads on the left, never cuts
RECURSIVE Padded(_, _, _)
Padded(str, width, fill) ==
    IF Len(str) >= width
    THEN str
    ELSE Padded(<< fill >> \o str, width, fill)

\* the loop of format6Bytes from index i on, stream the output so far
RECURSIVE Format6Loop(_, _, _, _, _)
Format6Loop(bytes, delimiter, i, stream, width) ==
    IF i < 6
    THEN LET separated ==
                 IF i # 0 /\ Len(delimiter) > 0
                 THEN stream \o delimiter
                 ELSE stream
         IN  Format6Loop(bytes, delimiter, i + 1,
                         separated \o Padded(HexOf(bytes[i + 1]), width, "0"),
                         width)
    ELSE stream

\* faulty variant: the groups are not padded to two digits
format6BytesUnpadded(bytes, delimiter) ==
    Format6Loop(bytes, delimiter, 0, << >>, 1)

format6Bytes(bytes, delimiter) ==
    Format6Loop(bytes, delimiter, 0, << >>, 2)

\* values of a uint8_t: the ends, both sides of 0x10, and the example's
ByteSample == { 0, 1, 15, 16, 44, 171, 255 }

Delimiters == { << >>, << ":" >>, << "-", "-" >> }

FormatInit ==
    /\ AtRest
    /\ callInput \in { << delimiter >> : delimiter \in Delimiters }
    /\ callOutput = NoCall

\* one call of format6Bytes(bytes, delimiter), as getHardwareMacAddress
\* and getSoftwareMacAddress make it with the six bytes they read
FormatCall ==
    /\ callOutput = NoCall
    /\ \E bytes \in [1..6 -> ByteSample] :
          /\ callInput' = << callInput[1], bytes >>
          /\ callOutput' = format6Bytes(bytes, callInput[1])
    /\ UNCHANGED programState

FormatNext == FormatCall

FormatSpec == FormatInit /\ [][FormatNext]_vars

\* the sixteen lowercase hexadecimal digits
LowerHex ==
    << "0", "1", "2", "3", "4", "5", "6", "7",
       "8", "9", "a", "b", "c", "d", "e", "f" >>

\* C18: the formatter returns six two-digit lowercase hex groups in byte
\* order, zero-padded, joined by the delimiter: nothing between the groups
\* when the delimiter is empty, nothing before the first or after the last
\* group; {0xAB,0x01,0x2C,0x00,0xFF,0x10} with ":" gives "ab:01:2c:00:ff:10".
C18_SixHexGroups ==
    callOutput # NoCall =>
        LET delimiter == callInput[1]
            bytes == callInput[2]
            step == 2 + Len(delimiter)
        IN  /\ Len(callOutput) = 12 + 5 * Len(delimiter)
            /\ \A g \in 0..5 :
                  /\ callOutput[g * step + 1]
                        = LowerHex[(bytes[g + 1] \div 16) + 1]
                  /\ callOutput[g * step + 2]
                        = LowerHex[(bytes[g + 1] % 16) + 1]
            /\ \A g \in 0..4 : \A k \in 1..Len(delimiter) :
                  callOutput[g * step + 2 + k] = delimiter[k]
            /\ (callInput = << << ":" >>, << 171, 1, 44, 0, 255, 16 >> >>) =>
                  callOutput = << "a", "b", ":", "0", "1", ":", "2", "c", ":",
                                  "0", "0", ":", "f", "f", ":", "1", "0" >>

C18_Witness ==
    /\ callInput = << << ":" >>, << 171, 1, 44, 0, 255, 16 >> >>
    /\ callOutput = << "a", "b", ":", "0", "1", ":", "2", "c", ":",
                       "0", "0", ":", "f", "f", ":", "1", "0" >>

\* C19: for every value of the wifiConfigured flag that makes begin() select
\* AccessPoint mode (anything but a spelling of "true", the empty value of a
\* missing key included), a suspicious boot that raises the counter to
\* exactly 3 wipes storage, resets the counter to 0 and restarts.
C19_WipeAgreesWithModeSelection ==
    ( /\ SuspiciousBoot
      /\ ~BeforeBranch
      /\ counterAtCheck + 1 = 3
      /\ flagAtCheck \notin TrueSpellings ) =>
        /\ pc \in WipeBranch \cup { "restarting" }
        /\ pc \in { "wipe_put", "wipe_end", "wipe_restart", "restarting" } =>
              ~spiffs.exists
        /\ pc \in { "wipe_restart", "restarting" } => nvsBootcounter = 0
        /\ pc = "restarting" =>
              escalations = { "wipe" } /\ restartIssuer = "tracker"

\* C20: when the check has returned without restarting, the persisted
\* counter is the number of suspicious boots in a row, this one included,
\* since the last address-acquired event, boot with another reset cause, or
\* escalation; a suspicious boot whose check returns has raised it by 1.
C20_CounterCountsSuspiciousBoots ==
    /\ pc \in { "apsecret", "netbegin", "running", "saved" } =>
          nvsBootcounter = consecutive
    /\ (CheckReturned /\ SuspiciousBoot) =>
          nvsBootcounter = counterAtCheck + 1

C20_Witness ==
    /\ pc = "apsecret"
    /\ SuspiciousBoot
    /\ earlierEscalations = { "network" }
    /\ counterAtCheck = 1
    /\ consecutive = 2
    /\ nvsBootcounter = 2

\* the positions inside checkResetReason()
CheckPositions ==
    { "check_open", "check_reason", "check_count", "check_end" }
        \cup NetworkBranch \cup WipeBranch

\* a step of the check changes the configuration only on a suspicious boot
\* whose incremented counter exceeds 3; a step to the end of the check, and
\* the return, change neither configuration nor file and escalate nothing
CheckStepKeepsConfiguration ==
    pc \in CheckPositions =>
        /\ configuration' # configuration =>
              SuspiciousBoot /\ pc = "check_count" /\ counterAtCheck + 1 > 3
        /\ pc' \in { "check_end", "apsecret" } =>
              /\ configuration' = configuration
              /\ spiffs' = spiffs
              /\ escalations' = {}
              /\ restartIssuer' = "none"

\* C21: checkResetReason() changes the configuration only in the branch
\* for a counter above 3; in the branch that stores the counter (3 with a
\* flag that is not "false" included) and on a boot with another reset
\* cause, every configuration key is unchanged, storage is not wiped and no
\* restart is issued.
C21_CheckLeavesConfigurationAlone == [][CheckStepKeepsConfiguration]_vars

\* the counter reached 3 with the flag "true": 3 is stored, the boot goes on
C21_Witness ==
    /\ pc = "apsecret"
    /\ SuspiciousBoot
    /\ counterAtCheck = 2
    /\ nvsBootcounter = 3
    /\ flagAtCheck = StrTrue
    /\ ConfigGet(configuration, KeyWifiConfigured) = StrTrue
    /\ spiffs = FileOf(configuration)
    /\ escalations = {}
    /\ restartIssuer = "none"

\* a step of the event handler: the main thread stays where it is and the
\* event is recorded
HandlerStep ==
    /\ pc' = pc
    /\ lastEvent' # lastEvent \/ linkLost' # linkLost

\* the handler writes the counter only for an acquired address; for a lost
\* link or another event it leaves counter, configuration and mode alone
HandlerStepKeepsState ==
    HandlerStep =>
        /\ nvsBootcounter' # nvsBootcounter => lastEvent'[1] = "STA_GOT_IP"
        /\ lastEvent'[1] # "STA_GOT_IP" =>
              /\ nvsBootcounter' = nvsBootcounter
              /\ configuration' = configuration
              /\ spiffs' = spiffs
              /\ operationMode_' = operationMode_

\* C22: the network event handler writes the persisted boot counter only on
\* an address-acquired event; a link-lost event or any other event leaves
\* the persisted counter, the configuration store and the operation mode
\* unchanged.
C22_HandlerWritesCounterOnlyOnAddress == [][HandlerStepKeepsState]_vars

\* a link loss and another event were handled with the counter at 3
C22_Witness ==
    /\ pc = "running"
    /\ lastEvent = << "OTHER", "STA_DISCONNECTED" >>
    /\ linkLost = 1
    /\ nvsBootcounter = 3
    /\ operationMode_ = "client"

\* C23: started with a persisted counter in 0..3, the persisted counter is
\* in 0..3 after any boots and network events; and when a check has returned
\* without restarting with a wifiConfigured flag that is a spelling of
\* "false", the persisted counter is at most 2.
C23_CounterStaysInRange ==
    /\ nvsBootcounter \in 0..3
    /\ ( /\ pc \in { "apsecret", "netbegin", "running", "saved" }
         /\ \/ flagAtCheck \in FalseSpellings
            \/ ConfigGet(configuration, KeyWifiConfigured)
                  \in FalseSpellings ) =>
           nvsBootcounter <= 2

\* the check returned at counter 2 with the flag "False", after a network
\* reset at an earlier boot
C23_Witness ==
    /\ pc = "apsecret"
    /\ SuspiciousBoot
    /\ flagAtCheck = << "F", "a", "l", "s", "e" >>
    /\ earlierEscalations = { "network" }
    /\ nvsBootcounter = 2

===========================================================================
